---- MODULE Spec2Model ----
(***************************************************************************)
(* Model of the Kendall lateral-view posture scorer                        *)
(* (src/analysis/KendallAnalyzer.js, kept here as src/unnamed/part_001),   *)
(* of the keypoint conversion of the TensorFlow.js detector                *)
(* (src/unnamed/part_002), of the handlers of PostureAnalysisApp           *)
(* (src/main.js) that run the detection and the scorer, and of the         *)
(* UIController (src/ui/UIController.js): its event registry, its camera   *)
(* and its buttons.                                                        *)
(* A second revision of the class, with stricter constants, is appended to *)
(* src/ui/UIController.js; the revision modelled is the one that           *)
(* docs/PROJECT_STATUS.md documents.                                       *)
(*                                                                         *)
(* Numbers.  JavaScript doubles are modelled as exact fixed-point values:  *)
(*   coordinates  in units of 1/CoordScale  (0.40 is 4000),                *)
(*   scores       in units of 1/ScoreScale  (100 points is 100000),        *)
(*   angles       in units of 1/AngleScale degree (90 degrees is 9000).    *)
(* Distances, thresholds and the two linear score curves are exact in     *)
(* these units.  Math.atan2 is computed by an integer CORDIC iteration     *)
(* whose result is within 0.01 degree of the true angle and is exact for   *)
(* the axis directions (0, 90, -90, 180).  Rounding of the last binary     *)
(* digit of a double is not modelled.                                      *)
(***************************************************************************)
EXTENDS Integers, Sequences, FiniteSets, TLC

VARIABLES
    landmarks,   \* the landmark array of the current call
    outcome,     \* "idle", or how the current call ended: "returned" / "threw"
    report,      \* the object the current call returned
    scored,      \* evaluators that completed during the current call
    previous,    \* the call before the current one, as its caller saw it
    analyzer,    \* the fields of the KendallAnalyzer object
    console,     \* lines the detector and the scorer wrote to the console
    detected,    \* what the pose estimator gave for the current image
    invocations, \* analyzeLateralView activations in progress, by caller
    heap,        \* the results objects those activations allocated
    images,      \* PostureAnalysisApp.images
    poseResults, \* PostureAnalysisApp.poseResults
    page,        \* what the document shows
    alerts,      \* alert() messages since the latest click on the analyze button
    task,        \* the activation of analyzePose: where it waits, what it holds,
                 \* how it ended, and what was stored and shown when it began
    camera,      \* UIController.cameraStream, the camera buttons and video, the
                 \* streams the browser handed out and the getUserMedia calls pending
    eventListeners, \* UIController.eventListeners
    dispatched   \* the callbacks the latest emit called, with their argument

scorerVars == <<landmarks, outcome, report, scored, previous, analyzer, console, detected>>
concurrentVars == <<invocations, heap>>
appVars == <<images, poseResults, page, alerts, task>>
uiVars == <<camera, eventListeners, dispatched>>
vars == <<scorerVars, concurrentVars, appVars, uiVars>>

(***************************************************************************)
(* Units                                                                   *)
(***************************************************************************)
CoordScale == 10000
ScoreScale == 1000
AngleScale == 100

Abs(n) == IF n < 0 THEN -n ELSE n
Max(a, b) == IF a >= b THEN a ELSE b

(***************************************************************************)
(* PoseDetector.LANDMARKS: the indices the scorer reads.                   *)
(***************************************************************************)
LEFT_EAR == 7
LEFT_SHOULDER == 11
LEFT_HIP == 23
LEFT_KNEE == 25
LEFT_ANKLE == 27

NOSE == 0
Required == {LEFT_EAR, LEFT_SHOULDER, LEFT_HIP, LEFT_KNEE, LEFT_ANKLE}

(***************************************************************************)
(* JavaScript values that are not landmark objects.                        *)
(***************************************************************************)
Null == [kind |-> "null"]
Undefined == [kind |-> "undefined"]

\* A landmark array is kept as its length and the entries at the indices the
\* scorer reads; landmarks[i] at an index outside the array is undefined.
At(lms, i) == IF i \in DOMAIN lms.entries THEN lms.entries[i] ELSE Undefined

\* Reading .x or .y of null or undefined raises a TypeError.
IsObject(v) == v # Null /\ v # Undefined

(***************************************************************************)
(* Math.atan2(dy, dx) * (180 / Math.PI), in units of 1/AngleScale degree.  *)
(***************************************************************************)
CordicIters == 20
CordicShift == 16384

\* atan(2^-i) in micro-degrees, i = 0 .. 19
AtanTable ==
    << 45000000, 26565051, 14036243, 7125016, 3576334, 1789911, 895174,
       447614, 223811, 111906, 55953, 27976, 13988, 6994, 3497, 1749,
       874, 437, 219, 109 >>

\* vectoring rotations: drive Y to 0, accumulate the angle in micro-degrees
\* (p is 2^i)
RECURSIVE CordicStep(_, _, _, _, _)
CordicStep(X, Y, z, i, p) ==
    IF i = CordicIters \/ Y = 0 THEN z
    ELSE IF Y > 0
         THEN CordicStep(X + (Y \div p), Y - (X \div p),
                         z + AtanTable[i + 1], i + 1, 2 * p)
         ELSE CordicStep(X - (Y \div p), Y + (X \div p),
                         z - AtanTable[i + 1], i + 1, 2 * p)

\* angle of (x, y) with x >= 0, y >= 0, not both 0, in micro-degrees
AtanPos(y, x) ==
    IF y = 0 THEN 0
    ELSE IF x = 0 THEN 90000000
    ELSE CordicStep(x * CordicShift, y * CordicShift, 0, 0, 1)

MicroToAngle(m) == (m + (1000000 \div AngleScale) \div 2) \div (1000000 \div AngleScale)

Atan2Deg(dy, dx) ==
    IF dx = 0 /\ dy = 0 THEN 0
    ELSE LET a == MicroToAngle(AtanPos(Abs(dy), Abs(dx)))
         IN  IF dx >= 0
             THEN (IF dy >= 0 THEN a ELSE -a)
             ELSE (IF dy >= 0 THEN 180 * AngleScale - a ELSE a - 180 * AngleScale)

(***************************************************************************)
(* Number.prototype.toFixed                                                *)
(***************************************************************************)
\* horizontalDistance.toFixed(3): a distance in 1/den units, to thousandths
ToFixed3(n, den) == (2 * n * 1000 + den) \div (2 * den)

\* angle.toFixed(1): sign and tenths of a degree ("-0.0" keeps its sign)
ToFixed1(a) == [neg |-> a < 0,
                tenths |-> (2 * Abs(a) * 10 + AngleScale) \div (2 * AngleScale)]

(***************************************************************************)
(* KendallAnalyzer: the six evaluators.                                    *)
(* An evaluator yields its result object, or TypeError when a landmark it  *)
(* reads is null or undefined.                                             *)
(***************************************************************************)
TypeError == [threw |-> "TypeError"]

Points(p) == p * ScoreScale

\* score lost per coordinate unit for a slope K given per 1.0 of distance
SlopePerUnit(K) == (K * ScoreScale) \div CoordScale

HeadThreshold == 300
HeadSlope == 2000
ShoulderThreshold == 200
ShoulderSlope == 2500
SpinalIdealAngle == 90
SpinalTolerance == 5
SpinalSlope == 3
PelvicIdealAngle == 90
PelvicTolerance == 5
PelvicSlope == 3
KneeThreshold == 300
KneeSlope == 2000
AnkleThreshold == 300
AnkleSlope == 2000

getHeadPostureDescription(score) ==
    IF score >= Points(90) THEN "head: excellent"
    ELSE IF score >= Points(70) THEN "head: good"
    ELSE IF score >= Points(50) THEN "head: caution"
    ELSE "head: poor"

getShoulderDescription(score) ==
    IF score >= Points(90) THEN "shoulder: excellent"
    ELSE IF score >= Points(70) THEN "shoulder: good"
    ELSE IF score >= Points(50) THEN "shoulder: caution"
    ELSE "shoulder: poor"

getSpinalDescription(score) ==
    IF score >= Points(90) THEN "spinal: excellent"
    ELSE IF score >= Points(70) THEN "spinal: good"
    ELSE IF score >= Points(50) THEN "spinal: caution"
    ELSE "spinal: poor"

getPelvicDescription(score) ==
    IF score >= Points(90) THEN "pelvic: excellent"
    ELSE IF score >= Points(70) THEN "pelvic: good"
    ELSE IF score >= Points(50) THEN "pelvic: caution"
    ELSE "pelvic: poor"

\* variant: the second tier starts above 70 instead of at 70
getKneeDescription_Above70(score) ==
    IF score >= Points(90) THEN "knee: excellent"
    ELSE IF score > Points(70) THEN "knee: good"
    ELSE IF score >= Points(50) THEN "knee: caution"
    ELSE "knee: poor"

getKneeDescription(score) ==
    IF score >= Points(90) THEN "knee: excellent"
    ELSE IF score >= Points(70) THEN "knee: good"
    ELSE IF score >= Points(50) THEN "knee: caution"
    ELSE "knee: poor"

getAnkleDescription(score) ==
    IF score >= Points(90) THEN "ankle: excellent"
    ELSE IF score >= Points(70) THEN "ankle: good"
    ELSE IF score >= Points(50) THEN "ankle: caution"
    ELSE "ankle: poor"

\* variant: the floor Math.max(0, ...) is forgotten
headScore_NoFloor(horizontalDistance) ==
    IF horizontalDistance > HeadThreshold
    THEN Points(100) - (horizontalDistance - HeadThreshold) * SlopePerUnit(HeadSlope)
    ELSE Points(100)

\* variant: the constants 0.01 and 1500 of a stricter tuning
headScore_Strict(horizontalDistance) ==
    IF horizontalDistance > 100
    THEN Max(0, Points(100) - (horizontalDistance - 100) * SlopePerUnit(1500))
    ELSE Points(100)

\* let score = 100; if (horizontalDistance > 0.03) score = Math.max(0, ...)
headScore(horizontalDistance) ==
    IF horizontalDistance > HeadThreshold
    THEN Max(0, Points(100)
             - (horizontalDistance - HeadThreshold) * SlopePerUnit(HeadSlope))
    ELSE Points(100)

\* variant: the constants 0.015 and 2000 of a stricter tuning
shoulderScore_Strict(deviation2) ==
    IF deviation2 > 300
    THEN Max(0, Points(100) - ((deviation2 - 300) * SlopePerUnit(2000)) \div 2)
    ELSE Points(100)

\* the deviation is kept in half units: deviation2 = 2 * deviation
shoulderScore(deviation2) ==
    IF deviation2 > 2 * ShoulderThreshold
    THEN Max(0, Points(100)
             - ((deviation2 - 2 * ShoulderThreshold)
                * SlopePerUnit(ShoulderSlope)) \div 2)
    ELSE Points(100)

spinalScore(angleDifference) ==
    IF angleDifference > SpinalTolerance * AngleScale
    THEN Max(0, Points(100)
             - ((angleDifference - SpinalTolerance * AngleScale)
                * SpinalSlope * ScoreScale) \div AngleScale)
    ELSE Points(100)

\* variant: the tolerance 3 and slope 12 of a stricter tuning
pelvicScore_Strict(angleDifference) ==
    IF angleDifference > 3 * AngleScale
    THEN Max(0, Points(100)
             - ((angleDifference - 3 * AngleScale) * 12 * ScoreScale) \div AngleScale)
    ELSE Points(100)

pelvicScore(angleDifference) ==
    IF angleDifference > PelvicTolerance * AngleScale
    THEN Max(0, Points(100)
             - ((angleDifference - PelvicTolerance * AngleScale)
                * PelvicSlope * ScoreScale) \div AngleScale)
    ELSE Points(100)

\* variant: the stricter constants 0.02 and 1800
kneeScore_Strict(horizontalDistance) ==
    IF horizontalDistance > 200
    THEN Max(0, Points(100) - (horizontalDistance - 200) * SlopePerUnit(1800))
    ELSE Points(100)

kneeScore(horizontalDistance) ==
    IF horizontalDistance > KneeThreshold
    THEN Max(0, Points(100)
             - (horizontalDistance - KneeThreshold) * SlopePerUnit(KneeSlope))
    ELSE Points(100)

\* variant: the operands of the subtraction are swapped
ankleScore_Swapped(horizontalDistance) ==
    IF horizontalDistance > AnkleThreshold
    THEN Max(0, Points(100)
             - (AnkleThreshold - horizontalDistance) * SlopePerUnit(AnkleSlope))
    ELSE Points(100)

ankleScore(horizontalDistance) ==
    IF horizontalDistance > AnkleThreshold
    THEN Max(0, Points(100)
             - (horizontalDistance - AnkleThreshold) * SlopePerUnit(AnkleSlope))
    ELSE Points(100)

\* variant: an ear of visibility at most 0.5 is not scored on its position
evaluateHeadPosture_VisibilityGated(lms) ==
    LET ear == At(lms, LEFT_EAR)
        shoulder == At(lms, LEFT_SHOULDER)
    IN  IF ~IsObject(ear) \/ ~IsObject(shoulder) THEN TypeError
        ELSE LET horizontalDistance == Abs(ear.x - shoulder.x)
                 score == IF 2 * ear.visibility > 1
                          THEN headScore(horizontalDistance) ELSE 0
                 angle == Atan2Deg(ear.y - shoulder.y, ear.x - shoulder.x)
             IN  [name |-> "HeadPosture",
                  score |-> score,
                  value |-> ToFixed3(horizontalDistance, CoordScale),
                  angle |-> ToFixed1(angle),
                  description |-> getHeadPostureDescription(score)]

\* 1. forward head posture: |ear.x - shoulder.x|
evaluateHeadPosture(lms) ==
    LET ear == At(lms, LEFT_EAR)
        shoulder == At(lms, LEFT_SHOULDER)
    IN  IF ~IsObject(ear) \/ ~IsObject(shoulder) THEN TypeError
        ELSE LET horizontalDistance == Abs(ear.x - shoulder.x)
                 score == headScore(horizontalDistance)
                 angle == Atan2Deg(ear.y - shoulder.y, ear.x - shoulder.x)
             IN  [name |-> "HeadPosture",
                  score |-> score,
                  value |-> ToFixed3(horizontalDistance, CoordScale),
                  angle |-> ToFixed1(angle),
                  description |-> getHeadPostureDescription(score)]

\* 2. shoulder position: |shoulder.x - (ear.x + hip.x) / 2|, kept in half units
evaluateShoulderPosition(lms) ==
    LET ear == At(lms, LEFT_EAR)
        shoulder == At(lms, LEFT_SHOULDER)
        hip == At(lms, LEFT_HIP)
    IN  IF ~IsObject(ear) \/ ~IsObject(shoulder) \/ ~IsObject(hip) THEN TypeError
        ELSE LET idealShoulderX2 == ear.x + hip.x
                 deviation2 == Abs(2 * shoulder.x - idealShoulderX2)
                 score == shoulderScore(deviation2)
                 angle == Atan2Deg(shoulder.y - hip.y, shoulder.x - hip.x)
             IN  [name |-> "ShoulderPosition",
                  score |-> score,
                  value |-> ToFixed3(deviation2, 2 * CoordScale),
                  angle |-> ToFixed1(angle),
                  description |-> getShoulderDescription(score)]

\* 3. spinal alignment: |atan2(shoulder - hip) - 90|
evaluateSpinalAlignment(lms) ==
    LET shoulder == At(lms, LEFT_SHOULDER)
        hip == At(lms, LEFT_HIP)
    IN  IF ~IsObject(shoulder) \/ ~IsObject(hip) THEN TypeError
        ELSE LET dx == shoulder.x - hip.x
                 dy == shoulder.y - hip.y
                 angle == Atan2Deg(dy, dx)
                 idealAngle == SpinalIdealAngle * AngleScale
                 angleDifference == Abs(angle - idealAngle)
                 score == spinalScore(angleDifference)
             IN  [name |-> "SpinalAlignment",
                  score |-> score,
                  value |-> ToFixed1(angleDifference),
                  angle |-> ToFixed1(angle),
                  description |-> getSpinalDescription(score)]

\* 4. pelvic tilt: |atan2(knee - hip) - 90|
evaluatePelvicTilt(lms) ==
    LET hip == At(lms, LEFT_HIP)
        knee == At(lms, LEFT_KNEE)
    IN  IF ~IsObject(hip) \/ ~IsObject(knee) THEN TypeError
        ELSE LET dx == knee.x - hip.x
                 dy == knee.y - hip.y
                 angle == Atan2Deg(dy, dx)
                 idealAngle == PelvicIdealAngle * AngleScale
                 angleDifference == Abs(angle - idealAngle)
                 score == pelvicScore(angleDifference)
             IN  [name |-> "PelvicTilt",
                  score |-> score,
                  value |-> ToFixed1(angleDifference),
                  angle |-> ToFixed1(angle),
                  description |-> getPelvicDescription(score)]

\* 5. knee position: |knee.x - hip.x|
evaluateKneePosition(lms) ==
    LET hip == At(lms, LEFT_HIP)
        knee == At(lms, LEFT_KNEE)
    IN  IF ~IsObject(hip) \/ ~IsObject(knee) THEN TypeError
        ELSE LET horizontalDistance == Abs(knee.x - hip.x)
                 score == kneeScore(horizontalDistance)
                 angle == Atan2Deg(knee.y - hip.y, knee.x - hip.x)
             IN  [name |-> "KneePosition",
                  score |-> score,
                  value |-> ToFixed3(horizontalDistance, CoordScale),
                  angle |-> ToFixed1(angle),
                  description |-> getKneeDescription(score)]

\* 6. ankle alignment: |ankle.x - knee.x|
evaluateAnkleAlignment(lms) ==
    LET knee == At(lms, LEFT_KNEE)
        ankle == At(lms, LEFT_ANKLE)
    IN  IF ~IsObject(knee) \/ ~IsObject(ankle) THEN TypeError
        ELSE LET horizontalDistance == Abs(ankle.x - knee.x)
                 score == ankleScore(horizontalDistance)
                 angle == Atan2Deg(ankle.y - knee.y, ankle.x - knee.x)
             IN  [name |-> "AnkleAlignment",
                  score |-> score,
                  value |-> ToFixed3(horizontalDistance, CoordScale),
                  angle |-> ToFixed1(angle),
                  description |-> getAnkleDescription(score)]

(***************************************************************************)
(* KendallAnalyzer.analyzeLateralView                                      *)
(***************************************************************************)
\* variant: the last detail is left out of the sum
RECURSIVE SumScores_SkipLast(_)
SumScores_SkipLast(details) ==
    IF Len(details) <= 1 THEN 0
    ELSE Head(details).score + SumScores_SkipLast(Tail(details))

RECURSIVE SumScores(_)
SumScores(details) ==
    IF details = << >> THEN 0
    ELSE Head(details).score + SumScores(Tail(details))

\* variant: knee position is evaluated before pelvic tilt
Evaluations_KneeFirst(lms) ==
    << evaluateHeadPosture(lms), evaluateShoulderPosition(lms),
       evaluateSpinalAlignment(lms), evaluateKneePosition(lms),
       evaluatePelvicTilt(lms), evaluateAnkleAlignment(lms) >>

\* the evaluators in the order the method calls them
Evaluations(lms) ==
    << evaluateHeadPosture(lms), evaluateShoulderPosition(lms),
       evaluateSpinalAlignment(lms), evaluatePelvicTilt(lms),
       evaluateKneePosition(lms), evaluateAnkleAlignment(lms) >>

\* number of evaluators that complete before the first one that throws
RECURSIVE Completed(_)
Completed(evals) ==
    IF evals = << >> \/ Head(evals) = TypeError THEN 0
    ELSE 1 + Completed(Tail(evals))

\* variant: the length of the array is validated first
analyzeLateralView_LengthChecked(lms) ==
    LET evals == Evaluations(lms)
        n == Completed(evals)
    IN  IF lms.length # 33
        THEN [outcome |-> "threw", error |-> TypeError, scored |-> 0]
        ELSE IF n < Len(evals)
        THEN [outcome |-> "threw", error |-> TypeError, scored |-> n]
        ELSE [outcome |-> "returned",
              results |-> [totalScore |-> [num |-> SumScores(evals),
                                           den |-> Len(evals)],
                           details |-> evals],
              scored |-> n]

\* variant: an evaluator's error is swallowed and the details so far are returned
analyzeLateralView_Partial(lms) ==
    LET evals == Evaluations(lms)
        n == Completed(evals)
    IN  [outcome |-> "returned",
         results |-> [totalScore |-> [num |-> SumScores(SubSeq(evals, 1, n)),
                                      den |-> n],
                      details |-> SubSeq(evals, 1, n)],
         scored |-> n]

\* variant: the results object outlives the call, details pile up in it
analyzeLateralView_Accumulating(lms) ==
    LET evals == Evaluations(lms)
        n == Completed(evals)
        kept == IF "details" \in DOMAIN report THEN report.details ELSE << >>
        details == kept \o evals
    IN  IF n < Len(evals)
        THEN [outcome |-> "threw", error |-> TypeError, scored |-> n]
        ELSE [outcome |-> "returned",
              results |-> [totalScore |-> [num |-> SumScores(details),
                                           den |-> Len(details)],
                           details |-> details],
              scored |-> n]

\* totalScore = sum / details.length, kept as the fraction num / den
analyzeLateralView(lms) ==
    LET evals == Evaluations(lms)
        n == Completed(evals)
    IN  IF n < Len(evals)
        THEN [outcome |-> "threw", error |-> TypeError, scored |-> n]
        ELSE [outcome |-> "returned",
              results |-> [totalScore |-> [num |-> SumScores(evals),
                                           den |-> Len(evals)],
                           details |-> evals],
              scored |-> n]

\* variant: the spinal evaluator writes its angles to the console
analyzeLateralViewEffects_Logging(lms, self) ==
    [landmarks |-> lms,
     self |-> self,
     logged |-> IF Completed(Evaluations(lms)) >= 3 THEN 1 ELSE 0]

\* what a call leaves behind besides its result: the array it was given, the
\* fields of the analyzer, and the number of console lines it wrote.  The
\* method and its evaluators assign to no landmark, to no element of the
\* array and to no field of this, and call nothing but Math and toFixed.
analyzeLateralViewEffects(lms, self) ==
    [landmarks |-> lms, self |-> self, logged |-> 0]

(***************************************************************************)
(* Landmark sets handed to the scorer                                      *)
(***************************************************************************)
NumLandmarks == 33

\* bounds of the explored inputs
MaxShift == 1000
MaxLen == 34
MaxCoarseSteps == 7
CoarseStep == 150

Landmark(x, y) == [kind |-> "object", x |-> x, y |-> y, z |-> 0, visibility |-> 1]

\* the placeholder of an entry no keypoint maps to
ZeroLandmark == [kind |-> "object", x |-> 0, y |-> 0, z |-> 0, visibility |-> 0]

\* the entries the model keeps track of: those the scorer reads and, for the
\* ones it never reads, the nose
Tracked == Required \cup {NOSE}

\* a pose gives x and y of the five landmarks the scorer reads
LandmarkSet(pose, len) ==
    [length |-> len,
     entries |-> [i \in Tracked \cap (0 .. (len - 1)) |->
                     IF i \in Required THEN Landmark(pose[i].x, pose[i].y)
                     ELSE ZeroLandmark]]

\* the same pose with another depth and visibility of the five landmarks
\* and another content of an entry the scorer does not read
DressedSet(pose, z, v, other) ==
    [length |-> NumLandmarks,
     entries |-> [i \in Tracked |->
                     IF i \in Required
                     THEN [Landmark(pose[i].x, pose[i].y) EXCEPT !.z = z, !.visibility = v]
                     ELSE other]]

\* a standing person seen from the side, y growing downward
Upright ==
    [i \in Required |->
        CASE i = LEFT_EAR      -> [x |-> 4000, y |-> 2000]
          [] i = LEFT_SHOULDER -> [x |-> 4000, y |-> 3000]
          [] i = LEFT_HIP      -> [x |-> 4000, y |-> 6000]
          [] i = LEFT_KNEE     -> [x |-> 4000, y |-> 8000]
          [] i = LEFT_ANKLE    -> [x |-> 4000, y |-> 9500]]

\* the same person upside down in the image
Inverted == [i \in Required |-> [x |-> Upright[i].x, y |-> CoordScale - Upright[i].y]]

Bases == {Upright, Inverted}

ShiftX(pose, i, k) == [pose EXCEPT ![i].x = @ + k]
SetY(pose, i, y) == [pose EXCEPT ![i].y = y]

YPool == {Upright[i].y : i \in Required}
XPool == {3700, 4000, 4300, 4500}

\* one landmark moved sideways: in fine steps when upright, in coarse steps
\* when inverted
ShiftedPoses ==
    {ShiftX(Upright, i, k) : i \in Required, k \in (-MaxShift) .. MaxShift}
    \cup {ShiftX(Inverted, i, k * CoarseStep) :
             i \in Required, k \in (-MaxCoarseSteps) .. MaxCoarseSteps}

\* one landmark moved to the height of another (horizontal and coincident pairs)
LevelledPoses == {SetY(b, i, y) : b \in Bases, i \in Required, y \in YPool}

\* several landmarks off the plumb line at once
MixedPoses ==
    {[i \in Required |-> [x |-> xs[i], y |-> Upright[i].y]] : xs \in [Required -> XPool]}

\* head 90, shoulder just under 90, knee 70, ankle just under 50
BoundaryPose ==
    [i \in Required |->
        CASE i = LEFT_EAR      -> [x |-> 4350, y |-> 2000]
          [] i = LEFT_SHOULDER -> [x |-> 4000, y |-> 3000]
          [] i = LEFT_HIP      -> [x |-> 4131, y |-> 6000]
          [] i = LEFT_KNEE     -> [x |-> 4581, y |-> 8000]
          [] i = LEFT_ANKLE    -> [x |-> 5132, y |-> 9500]]

\* ear.x = 0.30, hip.x = 0.50, shoulder.x = 0.44: the shoulder 0.04 off the midpoint
ShoulderPose ==
    [i \in Required |->
        CASE i = LEFT_EAR      -> [x |-> 3000, y |-> 2000]
          [] i = LEFT_SHOULDER -> [x |-> 4400, y |-> 3000]
          [] i = LEFT_HIP      -> [x |-> 5000, y |-> 6000]
          [] i = LEFT_KNEE     -> [x |-> 5000, y |-> 8000]
          [] i = LEFT_ANKLE    -> [x |-> 5000, y |-> 9500]]

Poses ==
    ShiftedPoses \cup LevelledPoses \cup MixedPoses \cup {BoundaryPose, ShoulderPose}

\* complete sets, sets of another length, and sets with a null entry
FullSets == {LandmarkSet(p, NumLandmarks) : p \in Poses}
OtherLengthSets == {LandmarkSet(Upright, len) : len \in (0 .. MaxLen) \ {NumLandmarks}}
NullEntrySets ==
    {[LandmarkSet(Upright, NumLandmarks) EXCEPT !.entries[i] = Null] : i \in Required}

Inputs == FullSets \cup OtherLengthSets \cup NullEntrySets

\* a coarser family for two calls in a row
PairPoses ==
    {ShiftX(Upright, i, k * CoarseStep) :
        i \in Required, k \in (-MaxCoarseSteps) .. MaxCoarseSteps}

\* the head moved forward in coarse steps, seen at several depths and
\* visibilities and with several contents of the nose entry
MaxDressedSteps == 2
ZPool == {0, -500}
VisibilityPool == {0, 1}
OtherPool == {ZeroLandmark, Null, Landmark(5000, 1000)}

DressedInputs ==
    {DressedSet(ShiftX(Upright, LEFT_EAR, 2 * k * CoarseStep), z, v, o) :
        k \in 0 .. MaxDressedSteps, z \in ZPool, v \in VisibilityPool, o \in OtherPool}

PairInputs == {LandmarkSet(p, NumLandmarks) : p \in PairPoses}

\* the sets given to a scorer that is called again and again
RepeatInputs == DressedInputs \cup NullEntrySets

\* calls counted between the first call and the latest one
MaxBetween == 1

(***************************************************************************)
(* PoseDetector.convertToMediaPipeFormat (TensorFlow.js detector)          *)
(***************************************************************************)
\* moveNetToMediaPipe[k + 1] is the landmark index of keypoint k
moveNetToMediaPipe ==
    <<0, 2, 5, 7, 8, 11, 12, 13, 14, 15, 16, 23, 24, 25, 26, 27, 28>>

\* keypoint.score || 0
ScoreOrZero(keypoint) == IF "score" \in DOMAIN keypoint THEN keypoint.score ELSE 0

\* the keypoints (numbered from 0) that the table maps to a landmark
MappedKeypoints(keypoints) ==
    {k \in 0 .. (Len(keypoints) - 1) : k < Len(moveNetToMediaPipe)}

\* variant: the array is filled with null and the placeholders are never made
convertToMediaPipeFormat_NullFilled(keypoints, imageWidth, imageHeight) ==
    LET mapped == MappedKeypoints(keypoints)
        targets == {moveNetToMediaPipe[k + 1] : k \in mapped}
        from(i) == CHOOSE k \in mapped : moveNetToMediaPipe[k + 1] = i
        last == Max(NumLandmarks - 1, Max(0, CHOOSE t \in targets \cup {0} :
                                                \A u \in targets : u <= t))
    IN  [length |-> last + 1,
         entries |-> [i \in 0 .. last |->
            IF i \in targets
            THEN [kind |-> "object",
                  x |-> (keypoints[from(i) + 1].x * CoordScale) \div imageWidth,
                  y |-> (keypoints[from(i) + 1].y * CoordScale) \div imageHeight,
                  z |-> 0,
                  visibility |-> ScoreOrZero(keypoints[from(i) + 1])]
            ELSE Null]]

\* new Array(33) of placeholders, then every mapped keypoint overwrites the
\* entry of its landmark index with its position divided by the image size
convertToMediaPipeFormat(keypoints, imageWidth, imageHeight) ==
    LET mapped == MappedKeypoints(keypoints)
        targets == {moveNetToMediaPipe[k + 1] : k \in mapped}
        from(i) == CHOOSE k \in mapped : moveNetToMediaPipe[k + 1] = i
        last == Max(NumLandmarks - 1, Max(0, CHOOSE t \in targets \cup {0} :
                                                \A u \in targets : u <= t))
    IN  [length |-> last + 1,
         entries |-> [i \in 0 .. last |->
            IF i \in targets
            THEN [kind |-> "object",
                  x |-> (keypoints[from(i) + 1].x * CoordScale) \div imageWidth,
                  y |-> (keypoints[from(i) + 1].y * CoordScale) \div imageHeight,
                  z |-> 0,
                  visibility |-> ScoreOrZero(keypoints[from(i) + 1])]
            ELSE ZeroLandmark]]

\* bounds of the explored keypoint lists and of the console
MaxKeypoints == 18
MaxLines == 2

\* image sizes in pixels
ImageSizes == {[width |-> 640, height |-> 480], [width |-> 1000, height |-> 1000]}

\* keypoint k of a person standing in the pose, in pixels of the image; the
\* estimator may leave the score out
Keypoint(k, pose, size, withScore) ==
    LET t == IF k < Len(moveNetToMediaPipe) THEN moveNetToMediaPipe[k + 1] ELSE NOSE
        pt == IF t \in Required THEN pose[t] ELSE [x |-> 5000, y |-> 1500]
        px == [x |-> (pt.x * size.width) \div CoordScale,
               y |-> (pt.y * size.height) \div CoordScale]
    IN  IF withScore THEN [x |-> px.x, y |-> px.y, score |-> 1] ELSE px

KeypointPoses == {Upright, ShoulderPose, ShiftX(Upright, LEFT_EAR, 500)}

\* what estimatePoses gives for an image: a keypoint list of any length
Estimates ==
    {[keypoints |-> [k \in 1 .. n |-> Keypoint(k - 1, pose, size, withScore)],
      width |-> size.width, height |-> size.height] :
        n \in 0 .. MaxKeypoints, pose \in KeypointPoses, size \in ImageSizes,
        withScore \in BOOLEAN}

(***************************************************************************)
(* State machine: a caller invokes the scorer and then drops the result.   *)
(***************************************************************************)
NoLandmarks == [length |-> 0, entries |-> << >>]
NoReport == [none |-> TRUE]
NoCall == [none |-> TRUE]
NoEstimate == [none |-> TRUE]

\* constructor: this.LANDMARKS = PoseDetector.LANDMARKS
NewAnalyzer ==
    [LANDMARKS |-> [NOSE |-> NOSE, LEFT_EAR |-> LEFT_EAR,
                    LEFT_SHOULDER |-> LEFT_SHOULDER, LEFT_HIP |-> LEFT_HIP,
                    LEFT_KNEE |-> LEFT_KNEE, LEFT_ANKLE |-> LEFT_ANKLE]]

\* bound: the number of callers whose activations may overlap
NumCallers == 2
Callers == 1 .. NumCallers

NoObject == [none |-> TRUE]
IdleInvocation ==
    [pc |-> "idle", landmarks |-> NoLandmarks, next |-> 0,
     overlapped |-> FALSE, value |-> NoReport]

\* constructor of PostureAnalysisApp, and the page as loaded
NoImages == [lateral |-> "null", frontal |-> "null"]
NoPoseResults == [lateral |-> Null, frontal |-> Null]
BlankCanvas == [image |-> "null", skeleton |-> FALSE]
InitialPage ==
    [loading |-> FALSE, analysisSection |-> FALSE, resultsSection |-> FALSE,
     results |-> NoReport, canvas |-> [lateral |-> BlankCanvas, frontal |-> BlankCanvas]]
\* whether analyzePose reached the call of analyzeLateralView, and then the
\* lateral image stored at that moment and the image its argument was detected in
NoScorer == [called |-> FALSE, stored |-> "null", detected |-> "null"]
IdleTask ==
    [pc |-> "idle", stale |-> FALSE, arg |-> "null", pose |-> Null,
     ended |-> "none", interfered |-> FALSE, wasReset |-> FALSE,
     scorer |-> NoScorer,
     before |-> [poseResults |-> NoPoseResults, results |-> NoReport,
                 resultsSection |-> FALSE]]

\* constructor of UIController: cameraStream = null; stopCamera leaves the
\* buttons and the video as the page has them before the camera is started
NoStream == 0
InitialCamera ==
    [cameraStream |-> NoStream, streams |-> << >>, pending |-> 0,
     startDisabled |-> FALSE, captureDisabled |-> TRUE, stopDisabled |-> TRUE,
     videoSrc |-> NoStream, videoShown |-> TRUE, canvasShown |-> FALSE]

\* the events the UIController emits or the app listens to
Events ==
    {"tabChange", "imageUploaded", "lateralImageUploaded", "frontalImageUploaded",
     "photoCapture", "analyzeClick", "resetClick", "generateReportClick"}
NoListeners == [e \in Events |-> << >>]

\* PostureAnalysisApp.setupEventListeners: one callback for each event it names
AppListeners ==
    [e \in Events |-> IF e = "imageUploaded" THEN << >> ELSE <<e>>]

\* nothing has been emitted yet
NoEmit == [event |-> "none", data |-> Undefined, calls |-> << >>, threw |-> FALSE]

\* the objects constructed and the page loaded
Constructed ==
    /\ landmarks = NoLandmarks
    /\ outcome = "idle"
    /\ report = NoReport
    /\ scored = 0
    /\ previous = NoCall
    /\ analyzer = NewAnalyzer
    /\ console = 0
    /\ detected = NoEstimate
    /\ invocations = [c \in Callers |-> IdleInvocation]
    /\ heap = [c \in Callers |-> NoObject]
    /\ images = NoImages
    /\ poseResults = NoPoseResults
    /\ page = InitialPage
    /\ alerts = << >>
    /\ task = IdleTask
    /\ camera = InitialCamera
    /\ dispatched = NoEmit

\* PostureAnalysisApp.init() has registered its listeners
Init ==
    /\ Constructed
    /\ eventListeners = AppListeners

\* the effect of  analysisResults = kendallAnalyzer.analyzeLateralView(lms)
Call(lms) ==
    \E r \in {analyzeLateralView(lms)}, e \in {analyzeLateralViewEffects(lms, analyzer)} :
        /\ landmarks' = e.landmarks
        /\ analyzer' = e.self
        /\ console' = console + e.logged
        /\ outcome' = r.outcome
        /\ report' = IF r.outcome = "returned" THEN r.results ELSE NoReport
        /\ scored' = r.scored
        /\ UNCHANGED <<concurrentVars, appVars, uiVars>>

Analyze ==
    /\ outcome = "idle"
    /\ \E lms \in Inputs : Call(lms)
    /\ UNCHANGED <<previous, detected>>

\* the caller is done with the result (or has caught the error)
Release ==
    /\ outcome \in {"returned", "threw"}
    /\ landmarks' = NoLandmarks
    /\ outcome' = "idle"
    /\ report' = NoReport
    /\ scored' = 0
    /\ previous' = NoCall
    /\ detected' = NoEstimate
    /\ UNCHANGED <<analyzer, console, concurrentVars, appVars, uiVars>>

Next ==
    \/ Analyze
    \/ Release

Spec == Init /\ [][Next]_vars

(***************************************************************************)
(* Two calls in a row on the same analyzer: the caller keeps what the      *)
(* first call gave and calls again.                                        *)
(***************************************************************************)
AnalyzeFirst ==
    /\ outcome = "idle"
    /\ \E lms \in PairInputs : Call(lms)
    /\ UNCHANGED <<previous, detected>>

AnalyzeAgain ==
    /\ outcome \in {"returned", "threw"}
    /\ previous = NoCall
    /\ previous' = [landmarks |-> landmarks, outcome |-> outcome, report |-> report]
    /\ \E lms \in PairInputs : Call(lms)
    /\ UNCHANGED detected

NextPair ==
    \/ AnalyzeFirst
    \/ AnalyzeAgain
    \/ Release

SpecPair == Init /\ [][NextPair]_vars

(***************************************************************************)
(* Repeated calls on the same analyzer: the caller keeps what the first    *)
(* call gave while it goes on calling.                                     *)
(***************************************************************************)
RepeatFirst ==
    /\ outcome = "idle"
    /\ \E lms \in RepeatInputs : Call(lms)
    /\ UNCHANGED <<previous, detected>>

RepeatAgain ==
    /\ outcome \in {"returned", "threw"}
    /\ previous = NoCall
    /\ previous' = [landmarks |-> landmarks, outcome |-> outcome, report |-> report,
                    between |-> 0]
    /\ \E lms \in RepeatInputs : Call(lms)
    /\ UNCHANGED detected

\* the latest call so far becomes a call in between (counted when it was
\* given another set than the first)
RepeatLater ==
    /\ outcome \in {"returned", "threw"}
    /\ previous # NoCall
    /\ previous.between < MaxBetween
    /\ previous' = [previous EXCEPT !.between =
                        IF landmarks = previous.landmarks THEN @ ELSE @ + 1]
    /\ \E lms \in RepeatInputs : Call(lms)
    /\ UNCHANGED detected

NextRepeat ==
    \/ RepeatFirst
    \/ RepeatAgain
    \/ RepeatLater
    \/ Release

SpecRepeat == Init /\ [][NextRepeat]_vars

(***************************************************************************)
(* Detection followed by scoring: the estimator's keypoints are converted  *)
(* to a landmark array, which the caller then hands to the scorer.         *)
(***************************************************************************)
\* img.onload of detectPose: estimatePoses, convertToMediaPipeFormat (which
\* writes one console line), resolve({poseLandmarks})
Detect ==
    /\ outcome = "idle"
    /\ console < MaxLines
    /\ \E est \in Estimates :
          /\ detected' = est
          /\ landmarks' = convertToMediaPipeFormat(est.keypoints, est.width, est.height)
    /\ console' = console + 1
    /\ outcome' = "detected"
    /\ UNCHANGED <<report, scored, previous, analyzer, concurrentVars, appVars, uiVars>>

\* analyzeLateralView(this.poseResults.lateral.poseLandmarks)
Score ==
    /\ outcome = "detected"
    /\ Call(landmarks)
    /\ UNCHANGED <<previous, detected>>

NextDetect ==
    \/ Detect
    \/ Score
    \/ Release

SpecDetect == Init /\ [][NextDetect]_vars

(***************************************************************************)
(* Overlapping activations of analyzeLateralView.  Each caller's           *)
(* activation advances one statement group at a time: the results object   *)
(* is made, the six evaluators push their details one after another, then  *)
(* the total is computed and the object returned.  The activations share   *)
(* the code and, when made on one analyzer, its LANDMARKS field, which no   *)
(* activation writes.                                                      *)
(***************************************************************************)
ConcurrentInputs ==
    {LandmarkSet(ShoulderPose, NumLandmarks),
     LandmarkSet(ShiftX(Upright, LEFT_EAR, 500), NumLandmarks),
     [LandmarkSet(Upright, NumLandmarks) EXCEPT !.entries[LEFT_KNEE] = Null]}

\* the evaluator of the k-th push
EvaluatorAt(k, lms) ==
    CASE k = 1 -> evaluateHeadPosture(lms)
      [] k = 2 -> evaluateShoulderPosition(lms)
      [] k = 3 -> evaluateSpinalAlignment(lms)
      [] k = 4 -> evaluatePelvicTilt(lms)
      [] k = 5 -> evaluateKneePosition(lms)
      [] k = 6 -> evaluateAnkleAlignment(lms)

\* variant: one results object is shared by all activations
ResultsOf_Shared(c) == 1

\* const results = {...}: a fresh object for every activation
ResultsOf(c) == c

\* const results = { totalScore: 0, details: [] }
Begin(c) ==
    /\ invocations[c].pc = "idle"
    /\ \E lms \in ConcurrentInputs :
          invocations' = [invocations EXCEPT ![c] =
              [pc |-> "running", landmarks |-> lms, next |-> 0,
               overlapped |-> FALSE, value |-> NoReport]]
    /\ heap' = [heap EXCEPT ![ResultsOf(c)] =
                    [totalScore |-> [num |-> 0, den |-> 1], details |-> << >>]]
    /\ UNCHANGED <<scorerVars, appVars, uiVars>>

\* the other activations in progress see this one take a step
Overlap(c, inv) ==
    [d \in Callers |->
        IF d # c /\ inv[d].pc = "running" THEN [inv[d] EXCEPT !.overlapped = TRUE]
        ELSE inv[d]]

\* results.details.push(this.evaluate...(landmarks))
Step(c) ==
    /\ invocations[c].pc = "running"
    /\ invocations[c].next < 6
    /\ \E detail \in {EvaluatorAt(invocations[c].next + 1, invocations[c].landmarks)} :
          IF detail = TypeError
          THEN /\ invocations' = Overlap(c, [invocations EXCEPT ![c].pc = "threw"])
               /\ UNCHANGED heap
          ELSE /\ invocations' = Overlap(c, [invocations EXCEPT ![c].next = @ + 1])
               /\ heap' = [heap EXCEPT ![ResultsOf(c)].details = Append(@, detail)]
    /\ UNCHANGED <<scorerVars, appVars, uiVars>>

\* results.totalScore = sum / results.details.length; return results
Finish(c) ==
    /\ invocations[c].pc = "running"
    /\ invocations[c].next = 6
    /\ \E details \in {heap[ResultsOf(c)].details} :
          /\ heap' = [heap EXCEPT ![ResultsOf(c)].totalScore =
                          [num |-> SumScores(details), den |-> Len(details)]]
          /\ invocations' = Overlap(c, [invocations EXCEPT
                                ![c].pc = "returned",
                                ![c].value = heap'[ResultsOf(c)]])
    /\ UNCHANGED <<scorerVars, appVars, uiVars>>

\* the caller has taken the result (or caught the error)
Settle(c) ==
    /\ invocations[c].pc \in {"returned", "threw"}
    /\ invocations' = [invocations EXCEPT ![c] = IdleInvocation]
    /\ UNCHANGED <<heap, scorerVars, appVars, uiVars>>

NextConcurrent ==
    \/ \E c \in Callers : Begin(c)
    \/ \E c \in Callers : Step(c)
    \/ \E c \in Callers : Finish(c)
    \/ \E c \in Callers : Settle(c)

SpecConcurrent == Init /\ [][NextConcurrent]_vars

(***************************************************************************)
(* PostureAnalysisApp: the handlers of main.js.  analyzePose is suspended  *)
(* at each await; uploads and reset may run in between.  showLoading       *)
(* disables the analyze button, so one activation runs at a time.          *)
(***************************************************************************)
LateralImages == {"sideA", "sideB", "noPerson", "broken"}
FrontalImages == {"front", "broken"}

\* the landmarks MediaPipe finds in an image
LandmarksOf(img) ==
    IF img = "sideB" THEN LandmarkSet(ShoulderPose, NumLandmarks)
    ELSE LandmarkSet(Upright, NumLandmarks)

\* PoseDetector.detectPose: rejects when the image does not load, resolves
\* with MediaPipe's results, which have no poseLandmarks when nobody is seen
\* (of: the image the results were detected in)
detectPose(img) ==
    IF img \in {"null", "undefined", "broken"} THEN [rejected |-> TRUE]
    ELSE [rejected |-> FALSE,
          results |-> [kind |-> "object", of |-> img,
                       poseLandmarks |-> IF img = "noPerson" THEN Undefined
                                         ELSE LandmarksOf(img)]]

\* this.kendallAnalyzer.analyzeLateralView(this.poseResults.lateral.poseLandmarks)
Scoring(pr) ==
    IF pr.lateral = Null THEN [outcome |-> "threw", error |-> TypeError, scored |-> 0]
    ELSE IF pr.lateral.poseLandmarks = Undefined
    THEN [outcome |-> "threw", error |-> TypeError, scored |-> 0]
    ELSE analyzeLateralView(pr.lateral.poseLandmarks)

\* !imageData : no image is stored
Falsy(img) == img \in {"null", "undefined"}

\* the guard of analyzePose: if (!this.images.lateral)
LateralMissing_Either(imgs) == Falsy(imgs.lateral) /\ Falsy(imgs.frontal)
LateralMissing(imgs) == Falsy(imgs.lateral)

\* UIController.stopCamera: the tracks of the stream held are stopped, the
\* video is cleared and shown, the buttons are set
StopCamera_KeepingButtons(cam) ==
    [cam EXCEPT !.streams = IF cam.cameraStream # NoStream
                            THEN [@ EXCEPT ![cam.cameraStream] = "stopped"]
                            ELSE @,
                !.cameraStream = NoStream, !.videoSrc = NoStream,
                !.videoShown = TRUE, !.canvasShown = FALSE]
StopCamera(cam) ==
    [cam EXCEPT !.streams = IF cam.cameraStream # NoStream
                            THEN [@ EXCEPT ![cam.cameraStream] = "stopped"]
                            ELSE @,
                !.cameraStream = NoStream, !.videoSrc = NoStream,
                !.videoShown = TRUE, !.canvasShown = FALSE,
                !.startDisabled = FALSE, !.captureDisabled = TRUE,
                !.stopDisabled = TRUE]

\* another handler ran: an activation in progress has been interfered with
\* (what was there when it began is no longer kept for comparison), an ended
\* one is no longer the latest thing that happened
Noted(t) ==
    IF t.pc = "idle" THEN IdleTask
    ELSE [t EXCEPT !.interfered = TRUE, !.before = IdleTask.before]

\* on('lateralImageUploaded'): this.images.lateral = imageData;
\* checkAndShowAnalysisSection()
LateralImageUploaded ==
    /\ \E img \in LateralImages : images' = [images EXCEPT !.lateral = img]
    /\ page' = [page EXCEPT !.analysisSection = TRUE]
    /\ task' = Noted(task)
    /\ UNCHANGED <<poseResults, alerts, scorerVars, concurrentVars, uiVars>>

\* on('frontalImageUploaded')
FrontalImageUploaded ==
    /\ \E img \in FrontalImages : images' = [images EXCEPT !.frontal = img]
    /\ page' = [page EXCEPT !.analysisSection = @ \/ ~Falsy(images.lateral)]
    /\ task' = Noted(task)
    /\ UNCHANGED <<poseResults, alerts, scorerVars, concurrentVars, uiVars>>

\* this.poseResults = { lateral: null, frontal: null }
Cleared_KeepingResults(pr) == pr
Cleared(pr) == NoPoseResults

\* PostureAnalysisApp.reset(), UIController.reset() included.  An assignment
\* this.poseResults.x = await ... in progress keeps the object it started with.
reset ==
    /\ images' = NoImages
    /\ poseResults' = Cleared(poseResults)
    /\ camera' = StopCamera(camera)
    /\ page' = [page EXCEPT !.analysisSection = FALSE, !.resultsSection = FALSE]
    /\ task' = [Noted(task) EXCEPT
                   !.stale = @ \/ task.pc \in {"detectLateral", "detectFrontal"},
                   !.wasReset = task.pc # "idle"]
    /\ alerts' = << >>

\* on('resetClick')
ResetClick ==
    /\ reset
    /\ UNCHANGED <<eventListeners, dispatched, scorerVars, concurrentVars>>

\* PostureAnalysisApp.generateReport()
generateReport ==
    /\ alerts' = IF poseResults.lateral = Null
                 THEN <<"run the analysis first">>
                 ELSE <<"report generation comes later">>
    /\ task' = Noted(task)
    /\ UNCHANGED <<images, poseResults, page>>

\* on('generateReportClick')
GenerateReportClick ==
    /\ generateReport
    /\ UNCHANGED <<scorerVars, concurrentVars, uiVars>>

\* analyzePose up to its first await (the analyze button is disabled while
\* the loading indicator shows)
analyzePose ==
    /\ ~page.loading
    /\ task.pc = "idle"
    /\ IF LateralMissing(images)
       THEN /\ alerts' = <<"select a lateral image">>
            /\ task' = [IdleTask EXCEPT !.ended = "refused"]
            /\ UNCHANGED page
       ELSE /\ alerts' = << >>
            /\ page' = [page EXCEPT !.loading = TRUE]
            /\ task' = [pc |-> "detectLateral", stale |-> FALSE,
                        arg |-> images.lateral, pose |-> Null,
                        ended |-> "none", interfered |-> FALSE,
                        wasReset |-> FALSE, scorer |-> NoScorer,
                        before |-> [poseResults |-> poseResults,
                                    results |-> page.results,
                                    resultsSection |-> page.resultsSection]]
    /\ UNCHANGED <<images, poseResults>>

\* on('analyzeClick')
AnalyzeClick ==
    /\ analyzePose
    /\ UNCHANGED <<scorerVars, concurrentVars, uiVars>>

\* analyzePose is over: nothing is held any more
Ended(how, sc) ==
    [task EXCEPT !.pc = "idle", !.ended = how, !.stale = FALSE, !.arg = "null",
                 !.pose = Null, !.scorer = sc]

\* catch (error): hideLoading(); alert(...)
Caught_StillLoading(pg, sc) ==
    /\ page' = pg
    /\ alerts' = Append(alerts, "analysis failed")
    /\ task' = Ended("failed", sc)
Caught(pg, sc) ==
    /\ page' = [pg EXCEPT !.loading = FALSE]
    /\ alerts' = Append(alerts, "analysis failed")
    /\ task' = Ended("failed", sc)

\* this.kendallAnalyzer.analyzeLateralView(this.poseResults.lateral.poseLandmarks):
\* reading poseLandmarks of null throws before the call is made
ScorerCall ==
    [called |-> poseResults.lateral # Null,
     stored |-> images.lateral,
     detected |-> IF poseResults.lateral = Null THEN "null"
                  ELSE poseResults.lateral.of]

\* the end of the try block: scoring, displayResults, hideLoading
Conclude(pg) ==
    \E r \in {Scoring(poseResults)} :
        IF r.outcome = "returned"
        THEN /\ page' = [pg EXCEPT !.results = r.results, !.resultsSection = TRUE,
                                    !.loading = FALSE]
             /\ task' = Ended("done", ScorerCall)
             /\ UNCHANGED alerts
        ELSE Caught(pg, ScorerCall)

\* this.poseResults[view] = await ... : the object is the one read before the
\* await, which a reset in between has replaced
Assigned_Late(pr, stale, view, results) == [pr EXCEPT ![view] = results]
Assigned(pr, stale, view, results) ==
    IF stale THEN pr ELSE [pr EXCEPT ![view] = results]

\* detectPose settles: the result is stored, displayPose starts loading the image
Detected(view, next) ==
    \E d \in {detectPose(task.arg)} :
        IF d.rejected
        THEN /\ Caught(page, NoScorer)
             /\ UNCHANGED poseResults
        ELSE /\ poseResults' = Assigned(poseResults, task.stale, view, d.results)
             /\ task' = [task EXCEPT !.pc = next, !.stale = FALSE,
                                     !.arg = images[view],
                                     !.pose = poseResults'[view]]
             /\ UNCHANGED <<page, alerts>>

LateralDetected ==
    /\ task.pc = "detectLateral"
    /\ Detected("lateral", "drawLateral")
    /\ UNCHANGED <<images, scorerVars, concurrentVars, uiVars>>

FrontalDetected ==
    /\ task.pc = "detectFrontal"
    /\ Detected("frontal", "drawFrontal")
    /\ UNCHANGED <<images, scorerVars, concurrentVars, uiVars>>

\* displayPose after its image has loaded or failed to: the canvas shows the
\* image and, when the pose has landmarks, the skeleton
Drawn(view) ==
    [page EXCEPT !.canvas[view] =
        [image |-> task.arg,
         skeleton |-> IF task.pose = Null THEN FALSE
                      ELSE task.pose.poseLandmarks # Undefined]]

\* the lateral image is drawn; the frontal one, if any, is detected next
LateralDrawn ==
    /\ task.pc = "drawLateral"
    /\ IF task.arg \in {"null", "undefined", "broken"} THEN Caught(page, NoScorer)
       ELSE IF ~Falsy(images.frontal)
       THEN /\ page' = Drawn("lateral")
            /\ task' = [task EXCEPT !.pc = "detectFrontal", !.arg = images.frontal]
            /\ UNCHANGED alerts
       ELSE Conclude(Drawn("lateral"))
    /\ UNCHANGED <<images, poseResults, scorerVars, concurrentVars, uiVars>>

FrontalDrawn ==
    /\ task.pc = "drawFrontal"
    /\ IF task.arg \in {"null", "undefined", "broken"} THEN Caught(page, NoScorer)
       ELSE Conclude(Drawn("frontal"))
    /\ UNCHANGED <<images, poseResults, scorerVars, concurrentVars, uiVars>>

NextApp ==
    \/ LateralImageUploaded
    \/ FrontalImageUploaded
    \/ ResetClick
    \/ AnalyzeClick
    \/ GenerateReportClick
    \/ LateralDetected
    \/ LateralDrawn
    \/ FrontalDetected
    \/ FrontalDrawn

SpecApp == Init /\ [][NextApp]_vars

(***************************************************************************)
(* UIController: event registry and dispatch                               *)
(***************************************************************************)
\* on(event, callback): the array is created on first use, the callback pushed
on(listeners, event, callback) ==
    [listeners EXCEPT ![event] = Append(@, callback)]

\* emit(event, data): what it calls, in order, and whether it threw.  An event
\* nobody registered for has no array; forEach is not reached.
CallsOf(listeners, event, data) ==
    [k \in 1 .. Len(listeners[event]) |->
        [callback |-> listeners[event][k], data |-> data]]
emit_Reversed(listeners, event, data) ==
    [event |-> event, data |-> data,
     calls |-> [k \in 1 .. Len(listeners[event]) |->
                   CallsOf(listeners, event, data)[Len(listeners[event]) + 1 - k]],
     threw |-> FALSE]
emit(listeners, event, data) ==
    [event |-> event, data |-> data,
     calls |-> IF listeners[event] = << >> THEN << >>
               ELSE CallsOf(listeners, event, data),
     threw |-> FALSE]

\* bound: registrations made after construction
MaxListeners == 3
Callbacks == {"f", "g"}
RegisteredEvents == {"analyzeClick", "resetClick", "imageUploaded"}
Payloads == {Undefined, [kind |-> "string", value |-> "sideA"]}

RECURSIVE Registrations(_, _)
Registrations(listeners, events) ==
    IF events = {} THEN 0
    ELSE LET e == CHOOSE x \in events : TRUE
         IN  Len(listeners[e]) + Registrations(listeners, events \ {e})

\* the UIController as constructed: eventListeners = {}
InitEvents ==
    /\ Constructed
    /\ eventListeners = NoListeners

On ==
    /\ Registrations(eventListeners, Events) < MaxListeners
    /\ \E e \in RegisteredEvents, cb \in Callbacks :
           eventListeners' = on(eventListeners, e, cb)
    /\ UNCHANGED <<dispatched, camera, scorerVars, concurrentVars, appVars>>

Emit ==
    /\ \E e \in RegisteredEvents, data \in Payloads :
           dispatched' = emit(eventListeners, e, data)
    /\ UNCHANGED <<eventListeners, camera, scorerVars, concurrentVars, appVars>>

NextEvents ==
    \/ On
    \/ Emit

SpecEvents == InitEvents /\ [][NextEvents]_vars

(***************************************************************************)
(* The page as the user drives it: files, camera and buttons of the        *)
(* UIController, whose events reach the listeners PostureAnalysisApp        *)
(* registered.                                                             *)
(***************************************************************************)
\* bounds: streams the browser hands out, getUserMedia calls pending at once
MaxStreams == 2
MaxPending == 2

\* reader.result and canvas.toDataURL(): a data URL, a string
DataUrl(img) == [kind |-> "string", value |-> img]

\* destructuring  ({ view, imageData })  of the argument
Field(data, name) ==
    IF data.kind = "object" /\ name \in DOMAIN data THEN data[name]
    ELSE "undefined"

\* on('photoCapture') callback of PostureAnalysisApp
onPhotoCapture(data) ==
    /\ images' = IF Field(data, "view") = "lateral"
                 THEN [images EXCEPT !.lateral = Field(data, "imageData")]
                 ELSE [images EXCEPT !.frontal = Field(data, "imageData")]
    /\ page' = [page EXCEPT !.analysisSection = @ \/ ~Falsy(images'.lateral)]
    /\ task' = Noted(task)
    /\ UNCHANGED <<poseResults, alerts>>

\* this.emit(event, data) as far as the registry goes
Emitted(event, data) ==
    /\ dispatched' = emit(eventListeners, event, data)
    /\ UNCHANGED eventListeners

Heard(event) == eventListeners[event] # << >>

\* handleImageFile: reader.onload emits 'imageUploaded', an event for which
\* PostureAnalysisApp registers no callback
FileLoaded ==
    /\ ~Heard("imageUploaded")
    /\ \E img \in LateralImages : Emitted("imageUploaded", DataUrl(img))
    /\ UNCHANGED <<appVars, camera, scorerVars, concurrentVars>>

\* click on startCamera, up to  await getUserMedia(...)
StartClick ==
    /\ ~camera.startDisabled
    /\ camera.pending < MaxPending
    /\ camera' = [camera EXCEPT !.pending = @ + 1]
    /\ alerts' = << >>
    /\ UNCHANGED <<images, poseResults, page, task, eventListeners, dispatched,
                   scorerVars, concurrentVars>>

\* getUserMedia resolves: the stream is stored and shown, the buttons set
StartGranted ==
    /\ camera.pending > 0
    /\ Len(camera.streams) < MaxStreams
    /\ camera' = [camera EXCEPT !.pending = @ - 1,
                                !.streams = Append(@, "live"),
                                !.cameraStream = Len(camera.streams) + 1,
                                !.videoSrc = Len(camera.streams) + 1,
                                !.videoShown = TRUE, !.canvasShown = FALSE,
                                !.startDisabled = TRUE,
                                !.captureDisabled = FALSE,
                                !.stopDisabled = FALSE]
    /\ UNCHANGED <<appVars, eventListeners, dispatched, scorerVars, concurrentVars>>

\* getUserMedia rejects: catch, alert
StartDenied ==
    /\ camera.pending > 0
    /\ camera' = [camera EXCEPT !.pending = @ - 1]
    /\ alerts' = Append(alerts, "camera unavailable")
    /\ UNCHANGED <<images, poseResults, page, task, eventListeners, dispatched,
                   scorerVars, concurrentVars>>

\* click on capturePhoto: the frame is drawn, emitted as a data URL, and the
\* camera stopped
CaptureClick ==
    /\ ~camera.captureDisabled
    /\ Emitted("photoCapture", DataUrl("front"))
    /\ IF Heard("photoCapture")
       THEN onPhotoCapture(DataUrl("front"))
       ELSE UNCHANGED appVars
    /\ camera' = StopCamera(camera)
    /\ UNCHANGED <<scorerVars, concurrentVars>>

\* click on stopCamera
StopClick ==
    /\ ~camera.stopDisabled
    /\ camera' = StopCamera(camera)
    /\ UNCHANGED <<appVars, eventListeners, dispatched, scorerVars, concurrentVars>>

\* click on analyzeBtn
AnalyzeButton ==
    /\ Emitted("analyzeClick", Undefined)
    /\ IF Heard("analyzeClick") THEN analyzePose ELSE UNCHANGED appVars
    /\ UNCHANGED <<camera, scorerVars, concurrentVars>>

\* click on resetBtn
ResetButton ==
    /\ Emitted("resetClick", Undefined)
    /\ IF Heard("resetClick") THEN reset ELSE UNCHANGED <<appVars, camera>>
    /\ UNCHANGED <<scorerVars, concurrentVars>>

\* click on generateReportBtn
GenerateReportButton ==
    /\ Emitted("generateReportClick", Undefined)
    /\ IF Heard("generateReportClick") THEN generateReport ELSE UNCHANGED appVars
    /\ UNCHANGED <<camera, scorerVars, concurrentVars>>

NextUI ==
    \/ FileLoaded
    \/ StartClick
    \/ StartGranted
    \/ StartDenied
    \/ CaptureClick
    \/ StopClick
    \/ AnalyzeButton
    \/ ResetButton
    \/ GenerateReportButton

SpecUI == Init /\ [][NextUI]_vars

(***************************************************************************)
(* Properties                                                              *)
(***************************************************************************)
HasAll(lms) ==
    \A i \in Required : i \in DOMAIN lms.entries /\ lms.entries[i].kind = "object"

Returned == outcome = "returned" /\ HasAll(landmarks)

Ear == landmarks.entries[LEFT_EAR]
Shoulder == landmarks.entries[LEFT_SHOULDER]
Hip == landmarks.entries[LEFT_HIP]
Knee == landmarks.entries[LEFT_KNEE]
Ankle == landmarks.entries[LEFT_ANKLE]

DistanceCriteria == {1, 2, 5, 6}

\* the horizontal metric of a distance criterion, in half coordinate units
Metric2(k, lms) ==
    LET e == lms.entries
    IN  CASE k = 1 -> 2 * Abs(e[LEFT_EAR].x - e[LEFT_SHOULDER].x)
          [] k = 2 -> Abs(2 * e[LEFT_SHOULDER].x - (e[LEFT_EAR].x + e[LEFT_HIP].x))
          [] k = 5 -> 2 * Abs(e[LEFT_KNEE].x - e[LEFT_HIP].x)
          [] k = 6 -> 2 * Abs(e[LEFT_ANKLE].x - e[LEFT_KNEE].x)

\* the canonical thresholds 0.03, 0.02, 0.03, 0.03 in half coordinate units
CanonicalT2(k) == IF k = 2 THEN 400 ELSE 600

\* C1: perfect posture.  When ear, shoulder, hip, knee and ankle of a
\* standing person share one x (shoulder above hip above knee), every one of
\* the six scores is 100 and totalScore is 100.
IsPerfectPosture ==
    /\ \A i \in Required : landmarks.entries[i].x = Ear.x
    /\ Shoulder.y < Hip.y
    /\ Hip.y < Knee.y

C1_PerfectPostureScoresHundred ==
    (Returned /\ IsPerfectPosture) =>
        /\ \A k \in 1 .. 6 : report.details[k].score = Points(100)
        /\ report.totalScore.num = Points(100) * report.totalScore.den

\* C2: spinal alignment is scored on the deviation d of the shoulder-hip
\* segment from the vertical: 100 when d <= 5 degrees, max(0, 100 - (d - 5) * 3)
\* otherwise; shoulder (0.40, 0.30), hip (0.45, 0.60) gives d of about 9.46
\* and a score of about 86.6.
VerticalDeviation(a, b) == Atan2Deg(Abs(a.x - b.x), Abs(a.y - b.y))

ToleranceCurve(d) ==
    IF d <= 5 * AngleScale THEN Points(100)
    ELSE Max(0, Points(100) - ((d - 5 * AngleScale) * 3 * ScoreScale) \div AngleScale)

C2_SpinalScoredOnVerticalDeviation ==
    Returned =>
        /\ report.details[3].score = ToleranceCurve(VerticalDeviation(Shoulder, Hip))
        /\ (Shoulder.x = 4000 /\ Shoulder.y = 3000 /\ Hip.x = 4500 /\ Hip.y = 6000)
              => /\ report.details[3].value.tenths \in {94, 95}
                 /\ report.details[3].score \in Points(86) .. Points(87)

\* C3: clamping.  Every score of a returned report lies in [0, 100], and so
\* does totalScore.
C3_Clamping ==
    Returned =>
        /\ \A k \in 1 .. 6 : /\ report.details[k].score >= 0
                             /\ report.details[k].score <= Points(100)
        /\ report.totalScore.num >= 0
        /\ report.totalScore.num <= Points(100) * report.totalScore.den

\* a report whose head score is floored at 0 while others are at the ceiling
C3_Witness ==
    /\ Returned
    /\ Abs(Ear.x - Shoulder.x) > 800
    /\ report.details[1].score = 0
    /\ report.details[6].score = Points(100)

\* C4: threshold saturation.  For head, shoulder, knee and ankle a metric of
\* at most the canonical threshold (0.03, 0.02, 0.03, 0.03) scores exactly 100.
C4_ThresholdSaturation ==
    Returned =>
        \A k \in DistanceCriteria :
            Metric2(k, landmarks) <= CanonicalT2(k)
                => report.details[k].score = Points(100)

\* hip.x = 0.40 and knee.x = 0.43: the metric equals the threshold
C4_Witness ==
    /\ Returned
    /\ Hip.x = 4000
    /\ Knee.x = 4300
    /\ report.details[5].score = Points(100)

\* C5: monotonicity.  For two calls whose metrics m1 < m2 of a distance
\* criterion both exceed the threshold, the second score is strictly below
\* the first while the first is above 0, and is 0 when the first is 0.
BothReturned ==
    /\ Returned
    /\ previous # NoCall
    /\ previous.outcome = "returned"

C5_Monotonicity ==
    BothReturned =>
        \A k \in DistanceCriteria :
            LET m1 == Metric2(k, previous.landmarks)
                m2 == Metric2(k, landmarks)
                s1 == previous.report.details[k].score
                s2 == report.details[k].score
            IN  (CanonicalT2(k) < m1 /\ m1 < m2) =>
                    /\ (s1 > 0 => s2 < s1)
                    /\ (s1 = 0 => s2 = 0)

\* two calls with ankle metrics above the threshold and falling, positive scores
C5_Witness ==
    /\ BothReturned
    /\ CanonicalT2(6) < Metric2(6, previous.landmarks)
    /\ Metric2(6, previous.landmarks) < Metric2(6, landmarks)
    /\ report.details[6].score > 0
    /\ report.details[6].score < previous.report.details[6].score

\* C6: aggregate.  totalScore is the sum of the six scores of the same
\* report divided by 6.
C6_TotalIsMeanOfSix ==
    Returned =>
        /\ report.totalScore.den = 6
        /\ report.totalScore.num =
              report.details[1].score + report.details[2].score
            + report.details[3].score + report.details[4].score
            + report.details[5].score + report.details[6].score

\* a report whose six scores are not all alike
C6_Witness ==
    /\ Returned
    /\ Cardinality({report.details[k].score : k \in 1 .. 6}) >= 4
    /\ report.details[6].score > 0

\* C7: tiers.  The description of every result is the one of the tier of its
\* score: Excellent from 90, Good from 70, Caution from 50, Poor below.
TierOf(score) ==
    IF score >= Points(90) THEN "excellent"
    ELSE IF score >= Points(70) THEN "good"
    ELSE IF score >= Points(50) THEN "caution"
    ELSE "poor"

CriterionOf(k) ==
    CASE k = 1 -> "head" [] k = 2 -> "shoulder" [] k = 3 -> "spinal"
      [] k = 4 -> "pelvic" [] k = 5 -> "knee" [] k = 6 -> "ankle"

C7_TierClassification ==
    Returned =>
        \A k \in 1 .. 6 :
            report.details[k].description =
                CriterionOf(k) \o ": " \o TierOf(report.details[k].score)

\* the four boundary cases in one report: 90 is Excellent, just below 90 is
\* Good, 70 is Good, just below 50 is Poor
C7_Witness ==
    /\ Returned
    /\ report.details[1].score = Points(90)
    /\ report.details[1].description = "head: excellent"
    /\ report.details[2].score < Points(90)
    /\ report.details[2].score > Points(89)
    /\ report.details[2].description = "shoulder: good"
    /\ report.details[5].score = Points(70)
    /\ report.details[5].description = "knee: good"
    /\ report.details[6].score < Points(50)
    /\ report.details[6].score > Points(49)
    /\ report.details[6].description = "ankle: poor"

C9_FailsBeforeAnyScoring ==
    (outcome # "idle" /\ ~HasAll(landmarks)) =>
        /\ outcome = "threw"
        /\ report = NoReport
        /\ scored = 0

\* evaluators that run before the first one that reads landmark i
EvaluatorsBefore(i) ==
    CASE i = LEFT_EAR -> 0
      [] i = LEFT_SHOULDER -> 0
      [] i = LEFT_HIP -> 1
      [] i = LEFT_KNEE -> 3
      [] i = LEFT_ANKLE -> 5

Missing(lms) ==
    {i \in Required : ~(i \in DOMAIN lms.entries /\ lms.entries[i].kind = "object")}

\* C9 as amended: when a required landmark is absent or null the call fails
\* and no report, partial or complete, is produced; the evaluators that come
\* before the first reader of a missing landmark have run by then (none for
\* ear or shoulder, one for hip, three for knee, five for ankle).
C9_FailsWithoutReport ==
    (outcome # "idle" /\ ~HasAll(landmarks)) =>
        /\ outcome = "threw"
        /\ report = NoReport
        /\ \E i \in Missing(landmarks) :
              /\ scored = EvaluatorsBefore(i)
              /\ \A j \in Missing(landmarks) : EvaluatorsBefore(i) <= EvaluatorsBefore(j)

\* only the ankle is missing: five criteria were scored, nothing is returned
C9_Witness ==
    /\ outcome = "threw"
    /\ Missing(landmarks) = {LEFT_ANKLE}
    /\ scored = 5
    /\ report = NoReport

\* C10: a returned report has exactly six details, in the order head
\* posture, shoulder position, spinal alignment, pelvic tilt, knee position,
\* ankle alignment.
C10_SixDetailsInOrder ==
    outcome = "returned" =>
        /\ Len(report.details) = 6
        /\ [k \in 1 .. 6 |-> report.details[k].name] =
              << "HeadPosture", "ShoulderPosition", "SpinalAlignment",
                 "PelvicTilt", "KneePosition", "AnkleAlignment" >>

\* a report for a posture that is far from perfect
C10_Witness ==
    /\ Returned
    /\ report.details[4].score < Points(50)
    /\ report.details[5].score < Points(50)
    /\ Len(report.details) = 6

\* C11: head posture.  The head score is 100 while |ear.x - shoulder.x| is at
\* most 0.03 and max(0, 100 - (metric - 0.03) * 2000) above it; ear.x = 0.45
\* and shoulder.x = 0.40 (metric 0.05) score 60.
C11_HeadPostureCurve ==
    Returned =>
        LET m == Abs(Ear.x - Shoulder.x)
        IN  /\ report.details[1].score =
                   IF m > 300 THEN Max(0, 100000 - (m - 300) * 200) ELSE 100000
            /\ (Ear.x = 4500 /\ Shoulder.x = 4000)
                   => report.details[1].score = Points(60)

C11_Witness ==
    /\ Returned
    /\ Ear.x = 4500
    /\ Shoulder.x = 4000
    /\ report.details[1].score = Points(60)

\* C12: shoulder position.  The shoulder score is 100 while the deviation of
\* shoulder.x from the midpoint (ear.x + hip.x) / 2 is at most 0.02 and
\* max(0, 100 - (deviation - 0.02) * 2500) above it; ear.x = 0.30,
\* hip.x = 0.50, shoulder.x = 0.44 (deviation 0.04) score 50.
C12_ShoulderPositionCurve ==
    Returned =>
        LET d2 == Abs(2 * Shoulder.x - (Ear.x + Hip.x))
        IN  /\ report.details[2].score =
                   IF d2 > 400 THEN Max(0, 100000 - (d2 - 400) * 125) ELSE 100000
            /\ (Ear.x = 3000 /\ Hip.x = 5000 /\ Shoulder.x = 4400)
                   => report.details[2].score = Points(50)

C12_Witness ==
    /\ Returned
    /\ Ear.x = 3000
    /\ Hip.x = 5000
    /\ Shoulder.x = 4400
    /\ report.details[2].score = Points(50)

\* C13: pelvic tilt.  With angleDifference = |atan2(dy, dx) in degrees - 90|
\* of the hip-to-knee segment, the pelvic score is 100 when angleDifference
\* <= 5 and max(0, 100 - (angleDifference - 5) * 3) otherwise; the spinal
\* criterion applies the same curve with the same constants to its own
\* angleDifference.
DirectionDifference(from, to) == Abs(Atan2Deg(to.y - from.y, to.x - from.x) - 90 * AngleScale)

C13_PelvicTiltCurve ==
    Returned =>
        /\ report.details[4].score = ToleranceCurve(DirectionDifference(Hip, Knee))
        /\ report.details[3].score = ToleranceCurve(DirectionDifference(Hip, Shoulder))

\* a thigh leaning about 14 degrees: the pelvic score is on the slope
C13_Witness ==
    /\ Returned
    /\ DirectionDifference(Hip, Knee) > 5 * AngleScale
    /\ report.details[4].score > 0
    /\ report.details[4].score < Points(100)

\* C14: degenerate geometry.  When the two landmarks of an angle criterion
\* coincide (shoulder = hip for the spine, hip = knee for the pelvis) the call
\* returns, the reported deviation is 0 degrees and the criterion scores 100.
Coincide(a, b) == a.x = b.x /\ a.y = b.y

C14_CoincidentPointsNotPenalised ==
    (outcome # "idle" /\ HasAll(landmarks)) =>
        /\ Coincide(Shoulder, Hip) =>
              /\ outcome = "returned"
              /\ report.details[3].value.tenths = 0
              /\ report.details[3].score = Points(100)
        /\ Coincide(Hip, Knee) =>
              /\ outcome = "returned"
              /\ report.details[4].value.tenths = 0
              /\ report.details[4].score = Points(100)

\* C15: determinism.  Two calls with identical landmark sets end the same way
\* and return identical reports (names, scores, raw values, descriptions,
\* totalScore), whatever was evaluated between them.
BothCalled == outcome # "idle" /\ previous # NoCall

SameXY(a, b) ==
    /\ HasAll(a)
    /\ HasAll(b)
    /\ \A i \in Required : /\ a.entries[i].x = b.entries[i].x
                            /\ a.entries[i].y = b.entries[i].y

C16_VisibilityIndependence ==
    (BothCalled /\ SameXY(previous.landmarks, landmarks)) =>
        /\ outcome = "returned"
        /\ previous.outcome = "returned"
        /\ previous.report = report
        /\ Len(report.details) = 6

\* an invisible ear at another depth and a null nose against a visible ear
C16_Witness ==
    /\ BothReturned
    /\ SameXY(previous.landmarks, landmarks)
    /\ Ear.visibility = 0
    /\ Ear.z # 0
    /\ landmarks.entries[NOSE] = Null
    /\ previous.landmarks.entries[LEFT_EAR].visibility = 1
    /\ previous.landmarks.entries[LEFT_EAR].z = 0
    /\ previous.landmarks.entries[NOSE] # Null
    /\ previous.report = report
    /\ report.details[1].score < Points(100)

Converted == outcome \in {"detected", "returned", "threw"} /\ detected # NoEstimate

KeypointOf(i) ==
    {k \in 0 .. (Len(detected.keypoints) - 1) :
        k < 17 /\ moveNetToMediaPipe[k + 1] = i}

C19_ThirtyThreeEntries ==
    Converted =>
        /\ landmarks.length = 33
        /\ DOMAIN landmarks.entries = 0 .. 32
        /\ \A i \in 0 .. 32 :
              /\ landmarks.entries[i].kind = "object"
              /\ KeypointOf(i) = {} =>
                    landmarks.entries[i] =
                        [kind |-> "object", x |-> 0, y |-> 0, z |-> 0, visibility |-> 0]

\* a list longer than the table: the ear is placed, its neighbour is a placeholder
C19_Witness ==
    /\ Converted
    /\ Len(detected.keypoints) > 17
    /\ landmarks.length = 33
    /\ landmarks.entries[LEFT_EAR].x > 0
    /\ landmarks.entries[LEFT_EAR - 1] = ZeroLandmark

\* C20: concurrent evaluations do not interfere.  However activations of
\* analyzeLateralView on the same or on different analyzers interleave, each
\* ends as it does when run alone: it returns the same report, or throws.
C20_NoInterference ==
    \A c \in Callers :
        LET alone == analyzeLateralView(invocations[c].landmarks)
        IN  /\ invocations[c].pc = "returned" =>
                  /\ alone.outcome = "returned"
                  /\ invocations[c].value = alone.results
            /\ invocations[c].pc = "threw" => alone.outcome = "threw"

\* two activations given different sets have both returned after having
\* overlapped
C20_Witness ==
    /\ invocations[1].pc = "returned"
    /\ invocations[2].pc = "returned"
    /\ invocations[1].overlapped
    /\ invocations[2].overlapped
    /\ invocations[1].landmarks # invocations[2].landmarks
    /\ invocations[1].value = analyzeLateralView(invocations[1].landmarks).results
    /\ invocations[2].value = analyzeLateralView(invocations[2].landmarks).results

\* C18: a failed analysis leaves the previous one untouched.  When analyzePose
\* fails (detection, drawing or scoring) after an earlier analysis succeeded,
\* exactly one failure message is shown and poseResults and the displayed
\* report are what they were before the failed call.
FailedUndisturbed ==
    /\ task.ended = "failed"
    /\ ~task.interfered
    /\ task.before.results # NoReport

C18_FailureLeavesResultsUntouched ==
    FailedUndisturbed =>
        /\ Len(alerts) = 1
        /\ poseResults = task.before.poseResults
        /\ page.results = task.before.results
        /\ page.resultsSection = task.before.resultsSection

\* C21: analyzeLateralView is called only while a lateral image is stored, and
\* with the landmarks that detectPose found in that very image.
C21_ScorerAfterPreconditions ==
    task.scorer.called =>
        /\ ~Falsy(task.scorer.stored)
        /\ task.scorer.detected = task.scorer.stored

\* C24: once analyzePose has returned, on success and on every failure path,
\* the loading indicator is hidden and the analyze button enabled again.
C24_LoadingReleased ==
    task.pc = "idle" => ~page.loading

C24_Witness ==
    /\ task.ended = "failed"
    /\ ~task.scorer.called
    /\ ~page.loading

\* C25: an analyzePose that a reset interrupted never reaches displayResults:
\* the results section stays hidden and the activation does not end in success.
C25_ResetCancelsOutcome ==
    task.wasReset => /\ ~page.resultsSection
                     /\ task.ended # "done"

\* reset while detectPose was pending, a new image uploaded before it settled:
\* the activation went on to the scoring step and failed there
C25_Witness ==
    /\ task.wasReset
    /\ task.ended = "failed"
    /\ ~Falsy(task.scorer.stored)
    /\ ~task.scorer.called

\* a step that ends in the refusal of analyzePose
RefusalStep ==
    task'.ended = "refused" =>
        /\ images' = images
        /\ poseResults' = poseResults
        /\ page' = page
        /\ task'.pc = "idle"
        /\ ~task'.scorer.called
        /\ alerts' = <<"select a lateral image">>

\* a step that starts the detection
StartStep ==
    (task.pc = "idle" /\ task'.pc # "idle") => ~Falsy(images.lateral)

\* C27: without a lateral image analyzePose only alerts: no loading indicator,
\* no detectPose, no analyzeLateralView, images and poseResults as they were,
\* also when a frontal image is stored.
C27_NoLateralImageNoAnalysis ==
    [][RefusalStep /\ StartStep]_vars

C27_Witness ==
    /\ task.ended = "refused"
    /\ images.frontal = "front"
    /\ Falsy(images.lateral)
    /\ alerts = <<"select a lateral image">>

\* the step that clears a stored lateral image
ClearingStep ==
    (~Falsy(images.lateral) /\ Falsy(images'.lateral)) =>
        /\ images' = NoImages
        /\ poseResults' = NoPoseResults
        /\ ~page'.analysisSection
        /\ ~page'.resultsSection

\* while no lateral image is stored nothing is analysed and nothing is shown;
\* while no lateral pose is stored generateReport has refused
Refusing ==
    /\ Falsy(images.lateral) =>
            /\ poseResults.lateral = Null
            /\ ~page.analysisSection
            /\ ~page.resultsSection
            /\ task.pc # "idle" => task.wasReset
    /\ poseResults.lateral = Null =>
            \A i \in DOMAIN alerts : alerts[i] # "report generation comes later"

\* C28: reset nulls both images and both pose results and hides the analysis
\* and results sections; from then on analyzePose and generateReport refuse
\* until a lateral image is provided and detected again.
C28_ResetRefuses ==
    []Refusing /\ [][ClearingStep]_vars

\* an analysis was shown, reset came, generateReport refused
C28_Witness ==
    /\ Falsy(images.lateral)
    /\ "details" \in DOMAIN page.results
    /\ ~page.resultsSection
    /\ alerts = <<"run the analysis first">>

\* C22: once the UIController has emitted the event of an uploaded file or of
\* a captured photo, the app holds a lateral image.
C22_AnnouncedImageReachesApp ==
    dispatched.event \in {"imageUploaded", "photoCapture"} => ~Falsy(images.lateral)

\* C23: every stream getUserMedia handed out is the one held in cameraStream
\* or has had its tracks stopped.
C23_NoStreamLeaked ==
    \A k \in DOMAIN camera.streams :
        camera.streams[k] = "live" => camera.cameraStream = k

\* C26: capture and stop are enabled only while a stream is held; with no
\* stream held, as stopCamera leaves it, start is enabled and capture and stop
\* are disabled; stopCamera nulls cameraStream and changes nothing when repeated.
C26_ButtonsFollowStream ==
    /\ (~camera.captureDisabled \/ ~camera.stopDisabled) =>
            camera.cameraStream # NoStream
    /\ StopCamera(camera).cameraStream = NoStream
    /\ StopCamera(StopCamera(camera)) = StopCamera(camera)
    /\ camera.cameraStream = NoStream =>
            /\ ~camera.startDisabled
            /\ camera.captureDisabled
            /\ camera.stopDisabled
            /\ StopCamera(camera) = camera

\* a camera was started and stopped again
C26_Witness ==
    /\ camera.cameraStream = NoStream
    /\ Len(camera.streams) = 1
    /\ camera.streams[1] = "stopped"
    /\ ~camera.startDisabled
    /\ camera.captureDisabled
    /\ camera.stopDisabled

\* a step of emit
EmitStep ==
    dispatched' # dispatched =>
        LET d == dispatched'
            registered == eventListeners[d.event]
        IN  /\ ~d.threw
            /\ Len(d.calls) = Len(registered)
            /\ \A k \in 1 .. Len(registered) :
                   /\ d.calls[k].callback = registered[k]
                   /\ d.calls[k].data = d.data

\* a step of on: the callback goes to the end of its event's list
OnStep ==
    eventListeners' # eventListeners =>
        \E e \in Events :
            /\ Len(eventListeners'[e]) = Len(eventListeners[e]) + 1
            /\ SubSeq(eventListeners'[e], 1, Len(eventListeners[e])) = eventListeners[e]
            /\ \A o \in Events \ {e} : eventListeners'[o] = eventListeners[o]

\* C29: emit calls the callbacks registered for its event, once for each
\* registration and in the order of registration, each with the data emitted,
\* and no other callback; with nothing registered it calls nothing and does
\* not throw.
C29_EventDispatch ==
    [][EmitStep /\ OnStep]_vars

\* two callbacks of one event called in the order registered, while another
\* event has a callback that was not called
C29_Witness ==
    /\ dispatched.event = "analyzeClick"
    /\ eventListeners["analyzeClick"] = <<"g", "f">>
    /\ eventListeners["resetClick"] # << >>
    /\ Len(dispatched.calls) = 2
    /\ dispatched.calls[1].callback = "g"
    /\ dispatched.calls[2].callback = "f"
====
